---- MODULE Spec2Model ----
(***************************************************************************)
(* A model of the sample-playback engine of nih-sampler (src/src/lib.rs):  *)
(* the embedded sample and its decoding (load_wav), a playing voice        *)
(* (PlayingSample) and the audio callback NihSampler::process, which       *)
(* drains the host's note events and mixes every playing voice into every  *)
(* channel sample of the block.                                            *)
(*                                                                         *)
(* Amplitudes are integers: the model keeps the order of the additions of  *)
(* the code, and leaves the rounding of f32 out.                           *)
(***************************************************************************)
EXTENDS Integers, Sequences, FiniteSets, TLC

\* ------------------------------------------------------------------ bounds
\* The longest embedded sample, in frames.
MaxLen == 3
\* The longest block, in sample frames.
MaxFrames == 3
\* The largest number of output channels.
MaxChannels == 2
\* The largest number of events the host queues over one run.
MaxEvents == 2
\* The number of process() calls of one run.
MaxBlocks == 2

\* The amplitude of the i-th frame of the source (2, -1, 4, -3, ...): no two
\* frames alike, both signs.
SourceAmplitude(i) == IF i % 2 = 1 THEN i + 1 ELSE 1 - i
\* What the host leaves in an output sample before process() ("silence" is 0).
HostFill == {0, 1}
\* The timings of the events: in a block shorter than the longest one, the
\* later ones lie past the last frame.
Timings == 0..(MaxFrames - 1)

VARIABLES
    INPUT_SAMPLE,     \* the embedded audio resource: its format and its frames
    channels,         \* the number of output channels of the accepted bus
    playing_samples,  \* NihSampler.playing_samples: the voice pool
    buffer,           \* the block's output buffer: buffer[frame + 1][channel]
    fill,             \* what the host left in every sample of the buffer
    events,           \* the events the host queued for this block (as given)
    queue,            \* the events context.next_event() has not returned yet
    next_event,       \* process()'s local next_event (NoEvent is None)
    sample_id,        \* the frame the outer loop of process() is at
    ch,               \* the channel the loop over channel_samples is at
    vi,               \* the voice the loop over playing_samples is at
    pc,               \* where the engine is
    status,           \* what the last process() call returned
    blocks,           \* the number of process() calls that returned
    carried,          \* the number of voices the pool held when the call began
    delivered,        \* the number of events the host has queued so far
    entry,            \* the pool as it was when the call began
    decodes           \* the number of load_wav() calls made during the call

vars == <<INPUT_SAMPLE, channels, playing_samples, buffer, fill, events, queue,
          next_event, sample_id, ch, vi, pc, status, blocks, carried,
          delivered, entry, decodes>>

\* ------------------------------------------------------------- the sample
\* The scale of an integer-encoded frame, `256.0 / i32::MAX as f32`, inverted:
\* 2147483647 is no f32 and rounds to 2^31, so x * 256 / 2^31 = x / 2^23.
IntScale == 8388608

\* A source frame as the decoder yields it: Ok(value) or Err.
OkFrame(v) == [ok |-> TRUE, value |-> v]
ErrFrame == [ok |-> FALSE, value |-> 0]

\* Result::unwrap_or_default: the value, or the default of the type (zero).
unwrap_or_default(s) == IF s.ok THEN s.value ELSE 0

\* load_wav that drops the frames that fail to decode (a filter_map on ok()).
load_wav_drop_failed(wav) ==
    LET good == SelectSeq(wav.frames, LAMBDA fr : fr.ok) IN
    [i \in 1..Len(good) |->
        IF wav.sample_format = "Float"
        THEN good[i].value
        ELSE good[i].value \div IntScale]

\* load_wav: one amplitude per source frame, in source order.
load_wav(wav) ==
    [i \in 1..Len(wav.frames) |->
        IF wav.sample_format = "Float"
        THEN unwrap_or_default(wav.frames[i])
        ELSE unwrap_or_default(wav.frames[i]) \div IntScale]

\* The sequences over S of length at most n.
SeqsUpTo(S, n) == UNION {[1..k -> S] : k \in 0..n}

\* The embedded samples of the runs: float-encoded, every frame decodes, of
\* every length up to MaxLen (the empty sample included).
SampleFiles ==
    {[sample_format |-> "Float",
      frames |-> [i \in 1..len |-> OkFrame(SourceAmplitude(i))]] :
        len \in 0..MaxLen}

\* -------------------------------------------------------------- the voice
\* PlayingSample::new with the index off by one: the voice starts at 1.
PlayingSample_new_at_one(blk, ev) ==
    [data |-> load_wav(INPUT_SAMPLE), current_sample_index |-> 1,
     blk |-> blk, ev |-> ev]

\* PlayingSample::new: a voice at index 0 over its own decoded copy of the
\* sample.  blk and ev name the event that spawned the voice (they are not
\* fields of the struct: they tell the voices of the pool apart).
PlayingSample_new(blk, ev) ==
    [data |-> load_wav(INPUT_SAMPLE), current_sample_index |-> 0,
     blk |-> blk, ev |-> ev]

\* should_be_removed with > for >=: a voice at the end of its data is kept.
should_be_removed_late(e) == e.current_sample_index > Len(e.data)

\* should_be_removed that gives up a voice one frame before its end.
should_be_removed_early(e) == e.current_sample_index + 1 >= Len(e.data)

\* PlayingSample::should_be_removed
should_be_removed(e) == e.current_sample_index >= Len(e.data)

\* PlayingSample::get_next_sample indexes data[current_sample_index]: the
\* index is in range iff this holds, and it panics otherwise.
in_bounds(e) == e.current_sample_index < Len(e.data)

\* get_next_sample that reads the first frame whatever the index.
get_next_sample_value_first(e) == e.data[1]

\* PlayingSample::get_next_sample: the value it returns (data is 1-based here)
get_next_sample_value(e) == e.data[e.current_sample_index + 1]

\* get_next_sample that advances by two.
get_next_sample_voice_skip(e) ==
    [e EXCEPT !.current_sample_index = e.current_sample_index + 2]

\* PlayingSample::get_next_sample: the voice it leaves
get_next_sample_voice(e) ==
    [e EXCEPT !.current_sample_index = e.current_sample_index + 1]

\* A retain that drops the first exhausted voice only (a remove at the
\* position of the first match).
RECURSIVE retain_first_only(_)
retain_first_only(pool) ==
    IF pool = <<>> THEN <<>>
    ELSE IF should_be_removed(Head(pool)) THEN Tail(pool)
    ELSE <<Head(pool)>> \o retain_first_only(Tail(pool))

\* The retain left out: every voice stays.
retain_none(pool) == pool

\* Vec::retain(|e| !e.should_be_removed()): the kept voices, in order.
RECURSIVE retain(_)
retain(pool) ==
    IF pool = <<>> THEN <<>>
    ELSE IF should_be_removed(Head(pool)) THEN retain(Tail(pool))
    ELSE <<Head(pool)>> \o retain(Tail(pool))

\* ------------------------------------------------------------- the events
NoEvent == [kind |-> "None", timing |-> 0]
Events == [kind : {"NoteOn", "Other"}, timing : Timings]

\* context.next_event(): the front of the queue, or None.
front(q) == IF q = <<>> THEN NoEvent ELSE Head(q)
pop(q) == IF q = <<>> THEN <<>> ELSE Tail(q)

\* The number of events of this block that process() has applied.
applied ==
    Len(events) - Len(queue) - (IF next_event = NoEvent THEN 0 ELSE 1)

\* Plugin::accepts_bus_config
accepts_bus_config(config) ==
    config.num_input_channels = 0 /\ config.num_output_channels > 0

\* ------------------------------------------------------------------- Init
\* NihSampler::default(), on a bus the plugin accepts.
Init ==
    /\ INPUT_SAMPLE \in SampleFiles
    /\ channels \in {c \in 0..MaxChannels :
            accepts_bus_config([num_input_channels |-> 0,
                                num_output_channels |-> c])}
    /\ playing_samples = <<>>
    /\ buffer = <<>>
    /\ fill = 0
    /\ events = <<>>
    /\ queue = <<>>
    /\ next_event = NoEvent
    /\ sample_id = 0
    /\ ch = 0
    /\ vi = 0
    /\ pc = "idle"
    /\ status = "None"
    /\ blocks = 0
    /\ carried = 0
    /\ delivered = 0
    /\ entry = <<>>
    /\ decodes = 0

\* ---------------------------------------------------------------- process
\* The host calls process() with a block of n frames holding f everywhere and
\* with evs queued; process() takes the first event (line 103) and enters the
\* loop over the frames.
ProcessBegin(n, evs, f) ==
    /\ pc = "idle"
    /\ blocks < MaxBlocks
    /\ delivered + Len(evs) <= MaxEvents
    /\ delivered' = delivered + Len(evs)
    /\ carried' = Len(playing_samples)
    /\ entry' = playing_samples
    /\ decodes' = 0
    /\ buffer' = [i \in 1..n |-> [c \in 1..channels |-> f]]
    /\ fill' = f
    /\ events' = evs
    /\ next_event' = front(evs)
    /\ queue' = pop(evs)
    /\ sample_id' = 0
    /\ ch' = 0
    /\ vi' = 0
    /\ status' = "None"
    /\ pc' = IF n = 0 THEN "return" ELSE "events"
    /\ UNCHANGED <<INPUT_SAMPLE, channels, playing_samples, blocks>>

\* The break with >= for >: an event waits for the frame after its timing.
event_breaks_early(event, id) == event.timing >= id

\* A test that lets an event through one frame ahead of its timing.
event_breaks_ahead(event, id) == event.timing > id + 1

\* A test that lets an event through only in the frame of its timing.
event_breaks_unless_exact(event, id) == event.timing # id

\* The break of the while-let loop: event.timing() > sample_id.
event_breaks(event, id) == event.timing > id

\* apply_event without the match: every event pushes a voice.
apply_event_any(pool, event, blk, ev) ==
    Append(pool, PlayingSample_new(blk, ev))

\* A match whose NoteOn restarts playback: the new voice replaces the pool.
apply_event_retrigger(pool, event, blk, ev) ==
    IF event.kind = "NoteOn"
    THEN <<PlayingSample_new(blk, ev)>>
    ELSE pool

\* The match on the event: a NoteOn pushes a new voice, anything else nothing.
apply_event(pool, event, blk, ev) ==
    IF event.kind = "NoteOn"
    THEN Append(pool, PlayingSample_new(blk, ev))
    ELSE pool

\* One turn of the while-let loop that applies the event (lines 105-124).
\* Every voice it pushes was built by PlayingSample::new, which calls
\* load_wav() once (line 169).
ApplyEvent ==
    /\ pc = "events"
    /\ next_event # NoEvent
    /\ ~event_breaks(next_event, sample_id)
    /\ playing_samples' =
            apply_event(playing_samples, next_event, blocks + 1, applied + 1)
    /\ next_event' = front(queue)
    /\ queue' = pop(queue)
    /\ decodes' = decodes + Len(playing_samples') - Len(playing_samples)
    /\ UNCHANGED <<INPUT_SAMPLE, channels, buffer, fill, events, sample_id, ch,
                   vi, pc, status, blocks, carried, delivered, entry>>

\* The while-let loop ends (None, or the break) and the loop over the
\* channel samples of the frame begins.
EventsDone ==
    /\ pc = "events"
    /\ next_event = NoEvent \/ event_breaks(next_event, sample_id)
    /\ pc' = "mix"
    /\ ch' = 1
    /\ vi' = 1
    /\ UNCHANGED <<INPUT_SAMPLE, channels, playing_samples, buffer, fill,
                   events, queue, next_event, sample_id, status, blocks,
                   carried, delivered, entry, decodes>>

\* `*sample = x`: the write replaces what the sample held.
mix_overwrite(sample, x) == x

\* `*sample += x`
mix(sample, x) == sample + x

\* One turn of the loop over playing_samples (line 128).
MixVoice ==
    /\ pc = "mix"
    /\ vi <= Len(playing_samples)
    /\ in_bounds(playing_samples[vi])
    /\ buffer' = [buffer EXCEPT ![sample_id + 1][ch] =
            mix(@, get_next_sample_value(playing_samples[vi]))]
    /\ playing_samples' = [playing_samples EXCEPT ![vi] =
            get_next_sample_voice(@)]
    /\ vi' = vi + 1
    /\ UNCHANGED <<INPUT_SAMPLE, channels, fill, events, queue, next_event,
                   sample_id, ch, pc, status, blocks, carried, delivered,
                   entry, decodes>>

\* get_next_sample on a voice whose index is out of range: the index panics
\* and process() unwinds.
MixVoicePanic ==
    /\ pc = "mix"
    /\ vi <= Len(playing_samples)
    /\ ~in_bounds(playing_samples[vi])
    /\ pc' = "panicked"
    /\ UNCHANGED <<INPUT_SAMPLE, channels, playing_samples, buffer, fill,
                   events, queue, next_event, sample_id, ch, vi, status,
                   blocks, carried, delivered, entry, decodes>>

\* The retain that ends the turn for one channel sample (line 131), then the
\* next channel sample, the next frame, or the end of the loop over frames.
Retain ==
    /\ pc = "mix"
    /\ vi > Len(playing_samples)
    /\ playing_samples' = retain(playing_samples)
    /\ IF ch < channels
       THEN /\ ch' = ch + 1
            /\ vi' = 1
            /\ UNCHANGED <<sample_id, pc>>
       ELSE /\ ch' = 0
            /\ vi' = 0
            /\ sample_id' = sample_id + 1
            /\ pc' = IF sample_id + 1 < Len(buffer) THEN "events" ELSE "return"
    /\ UNCHANGED <<INPUT_SAMPLE, channels, buffer, fill, events, queue,
                   next_event, status, blocks, carried, delivered, entry,
                   decodes>>

\* process() returns ProcessStatus::Normal (line 135).
ProcessReturn ==
    /\ pc = "return"
    /\ status' = "Normal"
    /\ pc' = "returned"
    /\ blocks' = blocks + 1
    /\ UNCHANGED <<INPUT_SAMPLE, channels, playing_samples, buffer, fill,
                   events, queue, next_event, sample_id, ch, vi, carried,
                   delivered, entry, decodes>>

\* The host takes the block: the borrow of the buffer and of the context ends,
\* what is left in the event queue goes with it, and the engine keeps its
\* pool alone until the next call.
HostTakesBlock ==
    /\ pc = "returned"
    /\ pc' = "idle"
    /\ buffer' = <<>>
    /\ fill' = 0
    /\ events' = <<>>
    /\ queue' = <<>>
    /\ next_event' = NoEvent
    /\ sample_id' = 0
    /\ carried' = 0
    /\ entry' = <<>>
    /\ decodes' = 0
    /\ UNCHANGED <<INPUT_SAMPLE, channels, playing_samples, ch, vi, status,
                   blocks, delivered>>

\* The host's next call: a block length, the events of the block and what the
\* buffer holds.
Begin ==
    /\ pc = "idle"
    /\ \E n \in 0..MaxFrames,
          evs \in SeqsUpTo(Events, MaxEvents - delivered),
          f \in HostFill :
            ProcessBegin(n, evs, f)

Next ==
    \/ Begin
    \/ ApplyEvent
    \/ EventsDone
    \/ MixVoice
    \/ MixVoicePanic
    \/ Retain
    \/ ProcessReturn
    \/ HostTakesBlock

Spec == Init /\ [][Next]_vars

\* The steps process() takes itself. The callback runs on one thread and
\* nothing suspends it: once called, it keeps taking its next step.
ProcessStep ==
    \/ ApplyEvent
    \/ EventsDone
    \/ MixVoice
    \/ MixVoicePanic
    \/ Retain
    \/ ProcessReturn

FairSpec == Spec /\ WF_vars(ProcessStep)

\* ------------------------------------------------- the decoder on its own
\* What a frame of either encoding holds: a float frame its amplitude, an
\* integer frame its amplitude in units of IntScale (so that the f32 the
\* code computes is a whole number); or the frame fails to decode.
SourceFrames(format) ==
    {ErrFrame} \cup
    {OkFrame(SourceAmplitude(i) * (IF format = "Float" THEN 1 ELSE IntScale)) :
        i \in 1..2}

\* The embedded resources of either encoding, of up to MaxLen frames, any of
\* which may fail to decode.
WavFiles ==
    UNION {{[sample_format |-> format, frames |-> fr] :
                fr \in SeqsUpTo(SourceFrames(format), MaxLen)} :
           format \in {"Float", "Int"}}

\* NihSampler::default() over any of these resources.
WavInit ==
    /\ INPUT_SAMPLE \in WavFiles
    /\ channels \in {c \in 0..MaxChannels :
            accepts_bus_config([num_input_channels |-> 0,
                                num_output_channels |-> c])}
    /\ playing_samples = <<>>
    /\ buffer = <<>>
    /\ fill = 0
    /\ events = <<>>
    /\ queue = <<>>
    /\ next_event = NoEvent
    /\ sample_id = 0
    /\ ch = 0
    /\ vi = 0
    /\ pc = "idle"
    /\ status = "None"
    /\ blocks = 0
    /\ carried = 0
    /\ delivered = 0
    /\ entry = <<>>
    /\ decodes = 0

\* `self.playing_samples.push(PlayingSample::new())` (lines 117-118) on its
\* own: one more voice over a fresh load_wav().
NewVoice ==
    /\ Len(playing_samples) < MaxEvents
    /\ playing_samples' =
            Append(playing_samples,
                   PlayingSample_new(0, Len(playing_samples) + 1))
    /\ decodes' = decodes + 1
    /\ UNCHANGED <<INPUT_SAMPLE, channels, buffer, fill, events, queue,
                   next_event, sample_id, ch, vi, pc, status, blocks, carried,
                   delivered, entry>>

WavSpec == WavInit /\ [][NewVoice]_vars

\* -------------------------------------------- process() as one function
\* The loop over playing_samples for one channel sample, from voice i on:
\* the voices after the reads, the sample, and whether no index panicked.
RECURSIVE mix_voices(_, _, _)
mix_voices(pool, i, sample) ==
    IF i > Len(pool) THEN [pool |-> pool, sample |-> sample, ok |-> TRUE]
    ELSE IF ~in_bounds(pool[i])
         THEN [pool |-> pool, sample |-> sample, ok |-> FALSE]
         ELSE mix_voices([pool EXCEPT ![i] = get_next_sample_voice(@)],
                         i + 1,
                         mix(sample, get_next_sample_value(pool[i])))

\* The loop over the channel samples of one frame, from channel c on: each
\* turn mixes every voice into the sample and ends with the retain.
RECURSIVE mix_channels(_, _, _)
mix_channels(pool, c, row) ==
    IF c > Len(row) THEN [pool |-> pool, row |-> row, ok |-> TRUE]
    ELSE LET m == mix_voices(pool, 1, row[c]) IN
         IF ~m.ok THEN [pool |-> m.pool, row |-> row, ok |-> FALSE]
         ELSE mix_channels(retain(m.pool), c + 1,
                           [row EXCEPT ![c] = m.sample])

\* The while-let loop of frame id over the events q not applied yet (its
\* head is next_event), k of the block's events being applied already.
RECURSIVE drain(_, _, _, _, _)
drain(pool, q, id, blk, k) ==
    IF q = <<>> \/ event_breaks(Head(q), id)
    THEN [pool |-> pool, q |-> q, k |-> k]
    ELSE drain(apply_event(pool, Head(q), blk, k + 1), Tail(q), id, blk, k + 1)

\* The loop over the frames, from frame id on.
RECURSIVE run_frames(_, _, _, _, _, _)
run_frames(pool, q, id, buf, blk, k) ==
    IF id >= Len(buf)
    THEN [pool |-> pool, buffer |-> buf, pending |-> q, ok |-> TRUE]
    ELSE LET d == drain(pool, q, id, blk, k)
             m == mix_channels(d.pool, 1, buf[id + 1])
         IN  IF ~m.ok
             THEN [pool |-> m.pool, buffer |-> buf, pending |-> d.q,
                   ok |-> FALSE]
             ELSE run_frames(m.pool, d.q, id + 1,
                             [buf EXCEPT ![id + 1] = m.row], blk, d.k)

\* process() on a pool, with the events evs and a block of n frames that
\* hold f: the pool and the buffer it leaves, the events it did not apply,
\* and whether it ran through without a panic.
process(pool, evs, n, f, blk) ==
    run_frames(pool, evs, 0, [i \in 1..n |-> [c \in 1..channels |-> f]],
               blk, 0)

\* ------------------------------------------------------------ the claims
\* The length of the decoded sample, data.len() of every voice.
SampleLen == Len(load_wav(INPUT_SAMPLE))

\* The voices get_next_sample is still to be called on in this turn of the
\* loop over the channel samples.
ToBeRead == IF pc = "mix" THEN vi..Len(playing_samples) ELSE {}

\* C1: with a sample of one frame or more, get_next_sample is only ever
\* called on a voice whose current_sample_index is below data.len(): no call
\* finds should_be_removed() true, and no read of data is out of range (the
\* index never panics), whatever the events, the channels and the blocks.
C1_NoReadPastEnd ==
    SampleLen >= 1 =>
        /\ pc # "panicked"
        /\ \A i \in ToBeRead :
              playing_samples[i].current_sample_index
                  < Len(playing_samples[i].data)

\* C1's case: two voices and two channels, and get_next_sample is about to
\* read the last frame of a voice in the second channel sample of a frame.
C1_Witness ==
    /\ SampleLen >= 1
    /\ pc = "mix"
    /\ channels >= 2
    /\ ch = 2
    /\ Len(playing_samples) >= 2
    /\ vi <= Len(playing_samples)
    /\ playing_samples[vi].current_sample_index + 1 = SampleLen

\* C2: with an empty sample, a voice a NoteOn spawns is never read (no
\* get_next_sample call, no out-of-range index) and the block completes.
C2_EmptySampleNeverRead ==
    SampleLen = 0 =>
        /\ pc # "panicked"
        /\ ToBeRead = {}

\* The block's events are time-ordered and every timing is a frame of the
\* block.
WellFormed ==
    /\ \A j \in 1..Len(events) : events[j].timing < Len(buffer)
    /\ \A i, j \in 1..Len(events) :
          i < j => events[i].timing <= events[j].timing

\* What the voice of event j adds to frame n when it plays one frame of the
\* sample per frame of the block, from its timing on.
FrameShare(j, n) ==
    IF /\ events[j].kind = "NoteOn"
       /\ events[j].timing <= n
       /\ n < events[j].timing + SampleLen
    THEN load_wav(INPUT_SAMPLE)[n - events[j].timing + 1]
    ELSE 0

\* The sum of FrameShare(j, n) over the first k events of the block.
RECURSIVE FrameMix(_, _)
FrameMix(k, n) ==
    IF k = 0 THEN 0 ELSE FrameMix(k - 1, n) + FrameShare(k, n)

\* The positions, in event order, of the voices of the first k events that
\* are not through the sample after the n frames of the block.
RECURSIVE Survivors(_, _)
Survivors(k, n) ==
    IF k = 0 THEN <<>>
    ELSE IF /\ events[k].kind = "NoteOn"
            /\ events[k].timing + SampleLen > n
         THEN Append(Survivors(k - 1, n), n - events[k].timing)
         ELSE Survivors(k - 1, n)

Positions(pool) == [i \in 1..Len(pool) |-> pool[i].current_sample_index]

\* C3: whatever the number of channels, a voice advances once per frame and
\* gives every channel of a frame the same value: after a block that began
\* with an empty pool and well-formed events, every channel of frame n holds
\* what it held before plus data[n - t] of every voice spawned at t with
\* t <= n < t + L.
C3_OnePerFrameEveryChannel ==
    (pc = "returned" /\ carried = 0 /\ WellFormed) =>
        \A n \in 1..Len(buffer) : \A c \in 1..channels :
            buffer[n][c] = fill + FrameMix(Len(events), n - 1)

\* C4: with one channel, after a block that began with an empty pool and
\* well-formed events, frame n holds what it held before plus data[n - t] of
\* every NoteOn of timing t with t <= n < t + L, and the pool holds the
\* voices that are not through the sample, each at N - t.
C4_MonoBlockOutput ==
    (pc = "returned" /\ channels = 1 /\ carried = 0 /\ WellFormed) =>
        /\ \A n \in 1..Len(buffer) :
              buffer[n][1] = fill + FrameMix(Len(events), n - 1)
        /\ Positions(playing_samples) = Survivors(Len(events), Len(buffer))

\* C4's case: the sample <<2, -1, 4>>, NoteOn at 0 and at 1, three frames of
\* silence: the block returns <<2, -1 + 2, 4 - 1>> and keeps the second voice.
C4_Witness ==
    /\ pc = "returned"
    /\ channels = 1
    /\ carried = 0
    /\ load_wav(INPUT_SAMPLE) = <<2, -1, 4>>
    /\ events = <<[kind |-> "NoteOn", timing |-> 0],
                  [kind |-> "NoteOn", timing |-> 1]>>
    /\ buffer = <<<<2>>, <<1>>, <<3>>>>
    /\ Positions(playing_samples) = <<2>>

\* The voices of the pool that the block being processed spawned (blocks
\* counts the calls that returned, so that block is blocks + 1).
ThisBlock == blocks + 1
SameVoice(v, w) == v.blk = w.blk /\ v.ev = w.ev

\* C5: with a sample of one frame or more,
\* in a well-formed block a NoteOn of timing t spawns in the iteration
\* for frame t, before anything is mixed into frame t: no applied event has
\* a timing above the frame being worked on, every event of a lower timing
\* is applied, and when the mixing of frame t starts every event of timing t
\* is applied and its voice is in the pool at index 0; the voices the block
\* has spawned are those of its NoteOns up to this frame, less the ones that
\* have played the sample through.
C5_SpawnAtTiming ==
    (pc \in {"events", "mix"} /\ WellFormed /\ SampleLen >= 1) =>
        /\ \A j \in 1..Len(events) :
              /\ j <= applied => events[j].timing <= sample_id
              /\ events[j].timing < sample_id => j <= applied
              /\ (pc = "mix" /\ events[j].timing = sample_id) => j <= applied
        /\ \A i \in 1..Len(playing_samples) :
              LET v == playing_samples[i] IN
              v.blk = ThisBlock =>
                  /\ v.ev <= applied
                  /\ events[v.ev].kind = "NoteOn"
                  /\ (events[v.ev].timing = sample_id
                        /\ (pc = "events" \/ (ch = 1 /\ vi <= i)))
                     => v.current_sample_index = 0
        /\ (pc = "mix" /\ ch = 1 /\ vi = 1) =>
              {playing_samples[i].ev :
                  i \in {k \in 1..Len(playing_samples) :
                            playing_samples[k].blk = ThisBlock}}
              = {j \in 1..Len(events) :
                    /\ events[j].kind = "NoteOn"
                    /\ events[j].timing <= sample_id
                    /\ (sample_id - events[j].timing) * channels < SampleLen}

\* C5's case: NoteOn at 0 and at 2 in a block of three frames: the mixing
\* of frame 2 starts with the first voice and the voice just spawned.
C5_Witness ==
    /\ pc = "mix"
    /\ ch = 1
    /\ vi = 1
    /\ sample_id = 2
    /\ events = <<[kind |-> "NoteOn", timing |-> 0],
                  [kind |-> "NoteOn", timing |-> 2]>>
    /\ Len(buffer) = 3
    /\ Positions(playing_samples) = <<2, 0>>

\* C6: when process() has returned, every NoteOn of the block has spawned
\* its voice, or the call reported an error.
C6_NoEventDropped ==
    pc = "returned" =>
        \/ \A j \in 1..Len(events) :
              events[j].kind = "NoteOn" => j <= applied
        \/ status = "Error"

\* C7: with a sample of one frame or more, once process() has returned the
\* pool holds no voice with current_sample_index >= data.len(); and what it
\* holds is all the voices below it: no step drops a voice that is not
\* through its data.
C7_NoExhaustedAfterReturn ==
    /\ [](( pc \in {"returned", "idle"} /\ SampleLen >= 1) =>
            \A i \in 1..Len(playing_samples) :
                playing_samples[i].current_sample_index
                    < Len(playing_samples[i].data))
    /\ [][\A i \in 1..Len(playing_samples) :
            LET v == playing_samples[i] IN
            \/ \E k \in 1..Len(playing_samples') :
                  SameVoice(v, playing_samples'[k])
            \/ v.current_sample_index >= Len(v.data)]_vars

\* C7's case: a block that spawned two voices has returned, one voice was
\* dropped on the way and the other is still playing.
C7_Witness ==
    /\ pc = "returned"
    /\ SampleLen >= 1
    /\ applied = 2
    /\ events[1].kind = "NoteOn"
    /\ events[2].kind = "NoteOn"
    /\ Len(playing_samples) = 1
    /\ playing_samples[1].ev = 2
    /\ playing_samples[1].current_sample_index >= 1

\* A step in which get_next_sample is called on the voice at vi.
ReadStep == pc = "mix" /\ vi' = vi + 1

\* C8: with a sample of L >= 1 frames a new voice is at 0 and is not to be
\* removed; a call of get_next_sample on a voice at m returns data[m] and
\* leaves it at m + 1, and nothing else moves a voice; should_be_removed()
\* is true of a voice iff it is at L or beyond.
C8_VoiceLifecycle ==
    /\ [](SampleLen >= 1 =>
            \A i \in 1..Len(playing_samples) :
                LET v == playing_samples[i] IN
                /\ v.data = load_wav(INPUT_SAMPLE)
                /\ should_be_removed(v) <=> v.current_sample_index >= SampleLen
                /\ should_be_removed(v) <=> v.current_sample_index = SampleLen)
    /\ [][SampleLen >= 1 =>
            /\ Len(playing_samples') > Len(playing_samples) =>
                  LET w == playing_samples'[Len(playing_samples')] IN
                  /\ Len(playing_samples') = Len(playing_samples) + 1
                  /\ w.current_sample_index = 0
                  /\ ~should_be_removed(w)
            /\ ReadStep =>
                  buffer'[sample_id + 1][ch] - buffer[sample_id + 1][ch]
                      = load_wav(INPUT_SAMPLE)
                            [playing_samples[vi].current_sample_index + 1]
            /\ \A i \in 1..Len(playing_samples) :
               \A k \in 1..Len(playing_samples') :
                  SameVoice(playing_samples[i], playing_samples'[k]) =>
                      playing_samples'[k].current_sample_index
                          = playing_samples[i].current_sample_index
                            + (IF ReadStep /\ i = vi THEN 1 ELSE 0)]_vars

\* C8's case: a voice over a sample of two frames or more has been read L
\* times and is at L, to be removed.
C8_Witness ==
    /\ SampleLen >= 2
    /\ pc = "mix"
    /\ \E i \in 1..Len(playing_samples) :
          /\ i < vi
          /\ playing_samples[i].current_sample_index = SampleLen

\* C9: in every state every voice of the pool has
\* 0 <= current_sample_index <= data.len(), and no step lowers the index of
\* a voice.
C9_PositionInRangeAndMonotone ==
    /\ [](\A i \in 1..Len(playing_samples) :
            /\ 0 <= playing_samples[i].current_sample_index
            /\ playing_samples[i].current_sample_index
                  <= Len(playing_samples[i].data))
    /\ [][\A i \in 1..Len(playing_samples) :
          \A k \in 1..Len(playing_samples') :
            SameVoice(playing_samples[i], playing_samples'[k]) =>
                playing_samples'[k].current_sample_index
                    >= playing_samples[i].current_sample_index]_vars

\* C9's case: inside process(), a voice carried over from an earlier block
\* has reached data.len() while a voice of this block is behind it.
C9_Witness ==
    /\ pc = "mix"
    /\ Len(playing_samples) = 2
    /\ playing_samples[1].blk < ThisBlock
    /\ playing_samples[1].current_sample_index = Len(playing_samples[1].data)
    /\ playing_samples[2].blk = ThisBlock
    /\ playing_samples[2].current_sample_index >= 1
    /\ playing_samples[2].current_sample_index < Len(playing_samples[2].data)

\* The sum of what get_next_sample returned for the first k voices of the
\* pool in this turn: a voice now at m was read at m - 1.
RECURSIVE ReturnedSum(_)
ReturnedSum(k) ==
    IF k = 0 THEN 0
    ELSE ReturnedSum(k - 1)
         + playing_samples[k].data[playing_samples[k].current_sample_index]

\* C10: the writes to a channel sample add: while a channel sample is being
\* mixed it holds what the host left in it plus what get_next_sample
\* returned for the voices read so far, the samples not reached yet hold
\* what the host left, and once k voices that were all at p are read the
\* sample holds the host's value plus k times data[p] (k = 0: unchanged).
C10_AdditiveMix ==
    pc = "mix" =>
        /\ buffer[sample_id + 1][ch] = fill + ReturnedSum(vi - 1)
        /\ \A n \in 1..Len(buffer) : \A c \in 1..channels :
              (n > sample_id + 1 \/ (n = sample_id + 1 /\ c > ch)) =>
                  buffer[n][c] = fill
        /\ \A p \in 1..SampleLen :
              (/\ vi > Len(playing_samples)
               /\ \A i \in 1..Len(playing_samples) :
                     playing_samples[i].current_sample_index = p) =>
                  buffer[sample_id + 1][ch]
                      = fill + Len(playing_samples) * load_wav(INPUT_SAMPLE)[p]

\* C10's case: two voices at the same place have been added to a sample
\* that held 1.
C10_Witness ==
    /\ pc = "mix"
    /\ fill = 1
    /\ Len(playing_samples) = 2
    /\ vi = 3
    /\ playing_samples[1].current_sample_index
          = playing_samples[2].current_sample_index
    /\ buffer[sample_id + 1][ch]
          = 1 + 2 * playing_samples[1].data
                        [playing_samples[1].current_sample_index]

\* The block's events are in ascending order of timing.
TimeOrdered ==
    \A i, j \in 1..Len(events) : i < j => events[i].timing <= events[j].timing

\* The sequence q without its i-th element.
Without(q, i) == SubSeq(q, 1, i - 1) \o SubSeq(q, i + 1, Len(q))

\* The block that has returned, run again from the same pool without the
\* i-th event, leaves the same buffer and the same voices at the same places.
SameWithout(i) ==
    LET r == process(entry, Without(events, i), Len(buffer), fill, blocks) IN
    /\ r.ok
    /\ r.buffer = buffer
    /\ Positions(r.pool) = Positions(playing_samples)

\* A step that applies an event that is not a NoteOn leaves the pool and the
\* buffer as they are.
OtherChangesNothing ==
    (pc = "events" /\ pc' = "events" /\ next_event.kind = "Other") =>
        /\ playing_samples' = playing_samples
        /\ buffer' = buffer

\* C11 as stated: an event that is not a NoteOn changes nothing when it is
\* applied, and a block returns the buffer and the pool it would return
\* without that event, whatever the order of the events (stated for a sample
\* of one frame or more, where no read can panic).
C11_OtherEventIsInert ==
    /\ [][OtherChangesNothing]_vars
    /\ []((pc = "returned" /\ SampleLen >= 1) =>
            \A i \in 1..Len(events) :
                events[i].kind = "Other" => SameWithout(i))

\* C11 amended: an event that is not a NoteOn changes nothing when it is
\* applied, and a block whose events are time-ordered returns the buffer and
\* the pool it would return without that event.
C11_OtherEventIsInertWhenOrdered ==
    /\ [][OtherChangesNothing]_vars
    /\ []((pc = "returned" /\ TimeOrdered) =>
            \A i \in 1..Len(events) :
                events[i].kind = "Other" => SameWithout(i))

\* C11's case: a block of time-ordered events with an event that is not a
\* NoteOn between two NoteOns has returned, a voice still playing.
C11_Witness ==
    /\ pc = "returned"
    /\ TimeOrdered
    /\ Len(events) >= 2
    /\ events[1].kind = "Other"
    /\ events[2].kind = "NoteOn"
    /\ events[2].timing < Len(buffer)
    /\ Len(playing_samples) >= 1

\* C12: with a sample of one frame or more and any events at all (out of
\* order, timings past the block), process() never panics, every call that
\* has begun returns, and what it returns is ProcessStatus::Normal.
C12_AlwaysReturnsNormal ==
    /\ [](SampleLen >= 1 => pc # "panicked")
    /\ [](pc = "returned" => status = "Normal")
    /\ (SampleLen >= 1 /\ pc \in {"events", "mix", "return"})
          ~> (pc = "returned")

\* C12's case: a call has returned whose events were out of order, the
\* second one with a timing past the block, and a voice plays.
C12_Witness ==
    /\ pc = "returned"
    /\ status = "Normal"
    /\ SampleLen >= 1
    /\ Len(events) = 2
    /\ events[1].timing > events[2].timing
    /\ events[1].timing >= Len(buffer)
    /\ events[2].kind = "NoteOn"
    /\ Len(buffer) >= 1

\* C13: the sample is decoded at most once and shared: however many NoteOns
\* a call applies, load_wav() runs at most once, and every voice reads the
\* same sequence.
C13_DecodedAtMostOnce ==
    /\ decodes <= 1
    /\ \A i \in 1..Len(playing_samples) :
          playing_samples[i].data = load_wav(INPUT_SAMPLE)

\* What one unit of decoded amplitude is in the source encoding.
UnitOf(format) == IF format = "Float" THEN 1 ELSE IntScale

\* C14: load_wav returns one amplitude per source frame, in source order: 0
\* for a frame that failed to decode, and for a frame that decoded its own
\* value scaled by the constant of the encoding, with its sign; a failed
\* frame ends nothing (the voice is built, nothing panics).
C14_DecodeKeepsEveryFrame ==
    /\ pc # "panicked"
    /\ \A v \in 1..Len(playing_samples) :
          LET d == playing_samples[v].data
              src == INPUT_SAMPLE.frames
          IN  /\ Len(d) = Len(src)
              /\ \A i \in 1..Len(src) :
                    IF src[i].ok
                    THEN /\ d[i] * UnitOf(INPUT_SAMPLE.sample_format)
                                = src[i].value
                         /\ (d[i] > 0) = (src[i].value > 0)
                         /\ (d[i] < 0) = (src[i].value < 0)
                    ELSE d[i] = 0

\* C14's case: an integer-encoded source whose middle frame fails to decode
\* is loaded as <<2, 0, -1>>.
C14_Witness ==
    /\ INPUT_SAMPLE.sample_format = "Int"
    /\ Len(INPUT_SAMPLE.frames) = 3
    /\ ~INPUT_SAMPLE.frames[2].ok
    /\ Len(playing_samples) >= 1
    /\ playing_samples[1].data = <<2, 0, -1>>

\* What the voice of event j adds to channel c of frame n when it is read
\* once per channel sample from its timing on: the read number
\* (n - t) * C + c, counting from 0 with c from 0.
ChannelShare(j, n, c) ==
    LET k == (n - events[j].timing) * channels + (c - 1) IN
    IF events[j].kind = "NoteOn" /\ events[j].timing <= n /\ k < SampleLen
    THEN load_wav(INPUT_SAMPLE)[k + 1]
    ELSE 0

\* The sum of ChannelShare(j, n, c) over the first k events of the block.
RECURSIVE ChannelMix(_, _, _)
ChannelMix(k, n, c) ==
    IF k = 0 THEN 0 ELSE ChannelMix(k - 1, n, c) + ChannelShare(k, n, c)

\* The positions, in event order, of the voices of the first k events that
\* are still in the pool when frame n starts: C reads per frame each.
RECURSIVE AliveAt(_, _)
AliveAt(k, n) ==
    IF k = 0 THEN <<>>
    ELSE IF /\ events[k].kind = "NoteOn"
            /\ events[k].timing <= n
            /\ (n - events[k].timing) * channels < SampleLen
         THEN Append(AliveAt(k - 1, n), (n - events[k].timing) * channels)
         ELSE AliveAt(k - 1, n)

\* C15: with C channels get_next_sample runs once per channel sample on
\* every voice: after a block that began with an empty pool and well-formed
\* events, channel c of frame n holds the host's value plus
\* data[(n - t) * C + c] of every voice spawned at t for which that index is
\* below L; a voice moves by C per frame, and it is in the pool at the start
\* of frame n iff (n - t) * C < L, so it leaves during frame
\* t + ceil(L / C) - 1.
C15_ReadPerChannelSample ==
    /\ (pc = "returned" /\ carried = 0 /\ WellFormed) =>
          /\ \A n \in 1..Len(buffer) : \A c \in 1..channels :
                buffer[n][c] = fill + ChannelMix(Len(events), n - 1, c)
          /\ Positions(playing_samples) = AliveAt(Len(events), Len(buffer))
    /\ (/\ pc = "mix" /\ ch = 1 /\ vi = 1
        /\ carried = 0 /\ WellFormed /\ SampleLen >= 1) =>
          Positions(playing_samples) = AliveAt(applied, sample_id)

\* C15's case: the sample <<2, -1, 4>> on two channels, NoteOn at 0, two
\* frames of silence: the block returns <<2, -1>>, <<4, 0>> and the voice
\* has left in frame 1.
C15_Witness ==
    /\ pc = "returned"
    /\ channels = 2
    /\ carried = 0
    /\ events = <<[kind |-> "NoteOn", timing |-> 0]>>
    /\ load_wav(INPUT_SAMPLE) = <<2, -1, 4>>
    /\ buffer = <<<<2, -1>>, <<4, 0>>>>
    /\ playing_samples = <<>>

\* The voice v is in the pool.
InPool(v, pool) == \E k \in 1..Len(pool) : SameVoice(v, pool[k])

\* C16: every voice plays its sample through: no step takes a voice out of
\* the pool before its position is the sample's length, a read emits the
\* frame at the voice's position and moves it by one (so a voice at the
\* length has emitted frames 0..L-1 once each, in order), and a voice that
\* entered a block of N frames and C channels at position p is in the pool
\* at the return iff p + N * C < L, at that position: it is gone after
\* ceil((L - p) / C) frames.
C16_RunsToCompletion ==
    /\ [][\A i \in 1..Len(playing_samples) :
            LET v == playing_samples[i] IN
            ~InPool(v, playing_samples') =>
                v.current_sample_index = Len(v.data)]_vars
    /\ [][ReadStep =>
            LET v == playing_samples[vi] IN
            /\ v.current_sample_index < Len(v.data)
            /\ buffer'[sample_id + 1][ch] = buffer[sample_id + 1][ch]
                  + v.data[v.current_sample_index + 1]
            /\ playing_samples'[vi].current_sample_index
                  = v.current_sample_index + 1]_vars
    /\ [](pc = "returned" =>
            \A i \in 1..Len(entry) :
                LET v == entry[i]
                    q == v.current_sample_index + Len(buffer) * channels IN
                IF q < Len(v.data)
                THEN \E k \in 1..Len(playing_samples) :
                        /\ SameVoice(v, playing_samples[k])
                        /\ playing_samples[k].current_sample_index = q
                ELSE ~InPool(v, playing_samples))

\* C16's case: a voice of an earlier block, on its last frame when this
\* block began, has been read to the end and is out of the pool at the
\* return.
C16_Witness ==
    /\ pc = "returned"
    /\ Len(buffer) >= 1
    /\ \E i \in 1..Len(entry) :
          /\ entry[i].current_sample_index >= 1
          /\ entry[i].current_sample_index + 1 = Len(entry[i].data)
          /\ ~InPool(entry[i], playing_samples)

\* A turn of the while-let loop that applies a NoteOn.
NoteOnStep ==
    /\ pc = "events"
    /\ pc' = "events"
    /\ applied' = applied + 1
    /\ next_event.kind = "NoteOn"

\* C17: applying a NoteOn makes the pool one voice longer: the new voice is
\* last, at position 0, and the voices that were in the pool are where they
\* were, each at the position it had, however many they are.  (The note,
\* channel, velocity and voice id of the event are bound by the match and
\* never read, lines 109-116: an event here is its kind and its timing.)
C17_NoteOnsStack ==
    [][NoteOnStep =>
        /\ Len(playing_samples') = Len(playing_samples) + 1
        /\ playing_samples'[Len(playing_samples')].current_sample_index = 0
        /\ SubSeq(playing_samples', 1, Len(playing_samples))
              = playing_samples]_vars

\* C17's case: a NoteOn has just been applied while a voice was playing:
\* the pool holds the older voice, past its first frame, and the new one
\* behind it at 0.
C17_Witness ==
    /\ pc = "events"
    /\ applied >= 1
    /\ events[applied].kind = "NoteOn"
    /\ Len(playing_samples) >= 2
    /\ playing_samples[1].current_sample_index >= 1
    /\ playing_samples[Len(playing_samples)].current_sample_index = 0
    /\ playing_samples[Len(playing_samples)].blk = ThisBlock
    /\ playing_samples[Len(playing_samples)].ev = applied

\* The frame in whose iteration event j is due: the first one at or after
\* its timing and the timings of the events before it.
RECURSIVE DueFrame(_)
DueFrame(j) ==
    IF j = 1 THEN events[1].timing
    ELSE IF DueFrame(j - 1) > events[j].timing
         THEN DueFrame(j - 1)
         ELSE events[j].timing

\* How many events are due by frame id (a prefix of the sequence).
Due(id) == Cardinality({j \in 1..Len(events) : DueFrame(j) <= id})

\* The voices of the pool that the running block has spawned.
SpawnedHere ==
    SelectSeq(playing_samples, LAMBDA v : v.blk = ThisBlock)

\* C18: for any event sequence, ordered or not: what is still to apply is
\* always the rest of the sequence after the events applied (one event is
\* taken at a time, in sequence order); when the mixing of frame n starts
\* the events applied are exactly those whose own timing and whose
\* predecessors' timings are all <= n, so each event is applied in the first
\* iteration with index >= its timing once its predecessors are applied, a
\* late event in the current iteration; its voice starts at 0 there; and
\* the voices of the block are in the pool in event order.
C18_EventsInSequenceOrder ==
    /\ [](pc \in {"events", "mix"} =>
            /\ applied <= Len(events)
            /\ applied < Len(events) =>
                  /\ next_event = events[applied + 1]
                  /\ queue = SubSeq(events, applied + 2, Len(events))
            /\ applied = Len(events) => next_event = NoEvent /\ queue = <<>>
            /\ \A i, k \in 1..Len(SpawnedHere) :
                  i < k => SpawnedHere[i].ev < SpawnedHere[k].ev
            /\ \A i \in 1..Len(playing_samples) :
               \A k \in 1..Len(playing_samples) :
                  (i < k /\ playing_samples[k].blk < ThisBlock)
                      => playing_samples[i].blk < ThisBlock)
    /\ [](pc = "events" =>
            /\ applied <= Due(sample_id)
            /\ sample_id >= 1 => applied >= Due(sample_id - 1))
    /\ [](pc = "mix" => applied = Due(sample_id))
    /\ [](pc = "mix" /\ ch = 1 /\ vi = 1 =>
            \A i \in 1..Len(SpawnedHere) :
                LET v == SpawnedHere[i] IN
                /\ events[v.ev].kind = "NoteOn"
                /\ v.current_sample_index
                      = (sample_id - DueFrame(v.ev)) * channels)
    /\ [][(pc = "events" /\ pc' = "events" /\ applied' # applied) =>
            /\ applied' = applied + 1
            /\ next_event = events[applied']
            /\ next_event.timing <= sample_id]_vars

\* C18's case: the events are a NoteOn at 2 and then a NoteOn at 0; the
\* mixing of frame 2 starts with both applied, the late one in this same
\* iteration, and their voices in sequence order at 0.
C18_Witness ==
    /\ pc = "mix"
    /\ ch = 1
    /\ vi = 1
    /\ sample_id = 2
    /\ events = <<[kind |-> "NoteOn", timing |-> 2],
                  [kind |-> "NoteOn", timing |-> 0]>>
    /\ applied = 2
    /\ Len(playing_samples) = 2
    /\ playing_samples[1].ev = 1
    /\ playing_samples[2].ev = 2
    /\ playing_samples[1].current_sample_index = 0
    /\ playing_samples[2].current_sample_index = 0

\* The events of the block whose frame is below n1, as they are.
EventsBefore(n1) == SelectSeq(events, LAMBDA e : e.timing < n1)

\* The events of the block whose frame is n1 or later, their timings
\* counted from frame n1.
EventsFrom(n1) ==
    LET late == SelectSeq(events, LAMBDA e : e.timing >= n1) IN
    [i \in 1..Len(late) |-> [late[i] EXCEPT !.timing = @ - n1]]

\* What each voice of the pool plays and where it is.
Playing(pool) ==
    [i \in 1..Len(pool) |->
        [data |-> pool[i].data,
         current_sample_index |-> pool[i].current_sample_index]]

\* The block that has returned, run again from the pool it began with as a
\* block of n1 frames and then a block of the frames left, leaves the same
\* frames and the same voices at the same positions.
SameSplitAt(n1) ==
    LET first  == process(entry, EventsBefore(n1), n1, fill, blocks)
        second == process(first.pool, EventsFrom(n1), Len(buffer) - n1, fill,
                          blocks + 1)
    IN  /\ first.ok
        /\ second.ok
        /\ first.pending = <<>>
        /\ second.pending = <<>>
        /\ first.buffer \o second.buffer = buffer
        /\ Playing(second.pool) = Playing(playing_samples)

\* C19: a block of N frames with well-formed events, whatever pool it began
\* with, gives the frames and leaves the pool that a block of its first N1
\* frames followed by a block of the other N - N1 frames gives, for every
\* N1 in 0..N, each event going to the block that holds its frame with its
\* timing counted from that block's first frame.
C19_BlockPartitionInvariance ==
    (pc = "returned" /\ WellFormed) =>
        \A n1 \in 0..Len(buffer) : SameSplitAt(n1)

\* C19's case: a block of three frames with a NoteOn at 1 and a sample of
\* three frames on one channel returns with the voice at 2: cut after frame
\* 1 the voice is spawned in the first part and played on in the second.
C19_Witness ==
    /\ pc = "returned"
    /\ channels = 1
    /\ Len(buffer) = 3
    /\ events = <<[kind |-> "NoteOn", timing |-> 1]>>
    /\ SampleLen = 3
    /\ Len(playing_samples) >= 1
    /\ playing_samples[Len(playing_samples)].current_sample_index = 2
    /\ SameSplitAt(2)
    /\ Len(process(entry, EventsBefore(2), 2, fill, blocks).pool)
          > Len(entry)

====
